---- MODULE Spec2Model ----
(***************************************************************************)
(* OldSpot: the failure dependency tree (Group / Unit) and the Monte-Carlo *)
(* event loop of main(), modelled from src/src/unit.cc, src/src/unit.hh,   *)
(* src/src/reliability.cc and src/src/main.cc (latest revisions).          *)
(*                                                                         *)
(* Numbers.  A Weibull distribution is kept by its rate parameter alpha    *)
(* (beta is the constant 2 of failure.hh).  A reliability value r is kept  *)
(* by h = (-ln r)^(1/beta), so r = 1 is h = 0, r = 0 is h = Inf, a smaller *)
(* r is a larger h, inverse(r) = alpha * h and reliability(t) is the h     *)
(* value |t| / alpha.  Times and h values are fixed point integers with    *)
(* Scale units per second; alpha is a whole number or Inf.  Inf, -Inf and  *)
(* NaN are sentinels with the arithmetic of IEEE doubles.                  *)
(*                                                                         *)
(* calls is a history variable: the number of failure() calls made on each *)
(* unit since its last reset().  ttfs_begin is a history variable: ttfs as  *)
(* it was when the current iteration began.  cerr is the standard error    *)
(* stream: the number of times each warning of set_configuration has been  *)
(* written to it, counted up to MaxRepeats.  mechanisms is the set main    *)
(* builds from --aging-mechanisms.  doc is the <group> section of the      *)
(* configuration file: for each group the elements written under it.  p    *)
(* is the parameter map of the NBTI mechanism and files the two parameter  *)
(* files its constructor is given.  kind is the class of each unit (Unit,  *)
(* Core, Logic, Memory).  duty_cycle is a history variable: the value of   *)
(* data["activity"] each mechanism's timeToFailure was given for each data  *)
(* point.  Activities are fixed point numbers with ActivityUnit units.     *)
(***************************************************************************)
EXTENDS Integers, Sequences, FiniteSets, TLC

VARIABLES units, _children, failures,
          copies, serial, traces, reliabilities, overall_reliabilities,
          age, current_reliability, _failed, remaining, config, prev_config,
          ttfs, i, t, healthy, failed_components, dt_event, failed, pc, calls,
          ttfs_begin, cerr, mechanisms, doc, p, files, kind, duty_cycle

vars == <<units, _children, failures,
          copies, serial, traces, reliabilities, overall_reliabilities,
          age, current_reliability, _failed, remaining, config, prev_config,
          ttfs, i, t, healthy, failed_components, dt_event, failed, pc, calls,
          ttfs_begin, cerr, mechanisms, doc, p, files, kind, duty_cycle>>

---------------------------------------------------------------------------
(* Bounds of the model *)

\* number of Monte-Carlo iterations run (the -n argument)
MaxIter == 2
\* largest redundancy count of a unit
MaxCopies == 2
\* spare copies in the whole system (sum of copies - 1 over the units)
MaxSpares == 1
\* largest failures threshold given to the root group
MaxFailures == 2
\* a sampled reliability lies 1..MaxDelta steps of h below the current one
MaxDelta == 1
\* a time value can be halved this often without rounding
Halvings == 2
\* largest finite scale alpha of a per-mechanism distribution
MaxAlpha == 4
\* an activity is a multiple of 1 / 2^ActivityHalvings
ActivityHalvings == 4
\* largest value a parameter file gives
MaxValue == 2
\* most lines of a parameter file
MaxLines == 2
\* the writes of one message to cerr are counted up to this number
MaxRepeats == 2

Scale == 2 ^ Halvings

---------------------------------------------------------------------------
(* IEEE double special values and arithmetic *)

Inf == 1000000
NaN == 2000000

IsNaN(x) == x = NaN
IsInf(x) == x = Inf \/ x = -Inf
IsFinite(x) == ~IsNaN(x) /\ ~IsInf(x)

Abs(x) == IF x < 0 THEN -x ELSE x

XNeg(x) == IF IsNaN(x) THEN NaN ELSE -x

XAdd(a, b) ==
    LET sum[x \in Int \X Int] ==
            IF IsNaN(x[1]) \/ IsNaN(x[2]) THEN NaN
            ELSE IF IsInf(x[1])
                 THEN (IF IsInf(x[2]) /\ x[2] # x[1] THEN NaN ELSE x[1])
            ELSE IF IsInf(x[2]) THEN x[2]
            ELSE x[1] + x[2]
    IN  sum[<<a, b>>]

XSub(a, b) == XAdd(a, XNeg(b))

Range(s) == {s[k] : k \in DOMAIN s}

---------------------------------------------------------------------------
(* Names *)

Root == "root"
fresh == {""}
Iterations == MaxIter
Mechanisms == {"NBTI"}

UnitSet == Range(units)
IsUnit(c) == c \in UnitSet
Groups == DOMAIN _children
Components == UnitSet \cup Groups

---------------------------------------------------------------------------
(* Failure dependency tree: Group::failed, Component::walk and             *)
(* Component::conditional_walk.  fl is the units' _failed flags.           *)

Children(c) == IF c \in Groups THEN _children[c] ELSE <<>>

RECURSIVE Failed(_, _)
RECURSIVE GroupFailedLoop(_, _, _, _)

\* the old revision's test: also failed when every child is failed
GroupFailedAllChildren(fl, g) ==
    LET f == Cardinality({k \in DOMAIN _children[g] : Failed(fl, _children[g][k])})
    IN  f > failures[g] \/ f >= Len(_children[g])

\* for (child: _children) if (child->failed() && ++f > failures) return true;
GroupFailedLoop(fl, g, k, f) ==
    IF k > Len(_children[g]) THEN FALSE
    ELSE IF Failed(fl, _children[g][k])
         THEN (IF f + 1 > failures[g] THEN TRUE
               ELSE GroupFailedLoop(fl, g, k + 1, f + 1))
         ELSE GroupFailedLoop(fl, g, k + 1, f)

GroupFailed(fl, g) == GroupFailedLoop(fl, g, 1, 0)

Failed(fl, c) == IF c \in Groups THEN GroupFailed(fl, c) ELSE fl[c]

\* The components in the order walk applies op to them.  components is the
\* stack, its top the last element.
Walk(components) ==
    LET walk[stack \in Seq(Components)] ==
            IF stack = <<>> THEN <<>>
            ELSE LET component == stack[Len(stack)]
                     rest == SubSeq(stack, 1, Len(stack) - 1)
                 IN  <<component>> \o walk[rest \o Children(component)]
    IN  walk[components]

\* The components in the order conditional_walk applies op to them, for an
\* op that returns false exactly on a failed component (both callers).
ConditionalWalk(components, fl) ==
    LET walk[stack \in Seq(Components)] ==
            IF stack = <<>> THEN <<>>
            ELSE LET component == stack[Len(stack)]
                     rest == SubSeq(stack, 1, Len(stack) - 1)
                 IN  <<component>> \o
                     walk[IF Failed(fl, component) THEN rest
                          ELSE rest \o Children(component)]
    IN  walk[components]

---------------------------------------------------------------------------
(* Weibull distributions *)

\* MTTF values of the model are Inf or divide MttfUnit
MttfUnit == Scale

\* Sum over the segments of duration / mttf, in units of 1 / MttfUnit
RECURSIVE SumRates(_)
SumRates(mttfs) ==
    IF mttfs = <<>> THEN 0
    ELSE (IF mttfs[1].mttf = Inf THEN 0
          ELSE (mttfs[1].duration * MttfUnit) \div mttfs[1].mttf)
         + SumRates(Tail(mttfs))

RECURSIVE TotalTime(_)
TotalTime(mttfs) ==
    IF mttfs = <<>> THEN 0 ELSE mttfs[1].duration + TotalTime(Tail(mttfs))

\* WeibullDistribution(beta, mttfs): alpha = 1 / (sum(duration/mttf) / total)
WeibullFromSegments(b, mttfs) ==
    [alpha |-> IF SumRates(mttfs) = 0 THEN Inf
               ELSE (TotalTime(mttfs) * MttfUnit) \div SumRates(mttfs),
     beta  |-> b]

\* WeibullDistribution::inverse, on the h value of r
WeibullInverse(d, h) ==
    IF d.alpha = Inf THEN Inf
    ELSE IF IsNaN(h) THEN NaN
    ELSE IF h = Inf THEN Inf
    ELSE d.alpha * h

\* WeibullDistribution::reliability, giving the h value of exp(-(t/alpha)^beta)
WeibullReliability(d, tt) ==
    IF IsNaN(tt) THEN NaN
    ELSE IF d.alpha = Inf THEN (IF IsInf(tt) THEN NaN ELSE 0)
    ELSE IF IsInf(tt) THEN Inf
    ELSE Abs(tt) \div d.alpha

\* h of the reliability value 1
One == 0

\* tgamma(1 / beta + 1) for the beta of failure.hh, tgamma(1.5) = 0.886...,
\* as the fraction GammaNum / GammaDen
GammaNum == 886
GammaDen == 1000

\* WeibullDistribution::mttf, in units of 1 / GammaDen
WeibullMttf(d) == IF d.alpha = Inf THEN Inf ELSE d.alpha * GammaNum

---------------------------------------------------------------------------
(* Unit *)

Beta == 2

\* The scale alpha of a product of distributions is alpha = (x / RateUnit)
\* ^ (-1 / beta) for the sum x of the factors' pow(1 / alpha, beta).  It is
\* kept as the whole number it equals when there is one, and as -x
\* otherwise, so that every scale has one representation.
RateUnit == MaxAlpha ^ Beta

\* Unit::inverse(c, r) and Unit::reliability(c, t) of unit u
Inverse(u, c, h) == WeibullInverse(overall_reliabilities[u][c], h)
Reliability(u, c, tt) == WeibullReliability(overall_reliabilities[u][c], tt)

ActivityUnit == 2 ^ ActivityHalvings

Min(a, b) == IF a < b THEN a ELSE b

\* Unit::activity, Core::activity, Logic::activity and Memory::activity of a
\* unit of class k for the data point and the mechanism m
Activity(k, point, m) ==
    IF k = "core"
    THEN (point.data.power * ActivityUnit) \div point.data.peak_power
    ELSE IF k = "logic"
    THEN LET duty == Min(point.data.activity
                            \div (point.duration * point.data.frequency),
                        ActivityUnit)
         IN  IF m = "NBTI"
             THEN ActivityUnit - (duty * duty) \div (2 * ActivityUnit)
             ELSE duty
    ELSE IF k = "memory"
    THEN (IF m = "HCI" THEN 0 ELSE ActivityUnit)
    ELSE point.data.activity

\* mechanism->timeToFailure(point): NBTI returns infinity for the activity 0
\* and HCI divides by the activity; for another activity, and for EM and
\* TDDB, which do not read it, the result is kept in the point as mttf[m]
TimeToFailure(m, point) ==
    IF m \in {"NBTI", "HCI"} /\ point.data.activity = 0 THEN Inf
    ELSE point.mttf[m]

\* The vector mttfs compute_reliability builds for a trace and a mechanism
MttfSegments(trace, m) ==
    [j \in DOMAIN trace |->
        [duration |-> IF j > 1 THEN trace[j].time - trace[j - 1].time
                      ELSE trace[j].time,
         mttf |-> TimeToFailure(m, trace[j])]]

\* The body of compute_reliability's loop over the traces, for a unit of
\* class k and the mechanisms in the order visit of the set: each mechanism
\* writes data["activity"] = min(activity(point, mechanism), 1.0) into every
\* point and makes its distribution of the trace so written
ComputeTrace(k, trace, visit) ==
    LET done[n \in 0..Len(visit)] ==
            IF n = 0 THEN [trace |-> trace, rel |-> <<>>, duty |-> <<>>]
            ELSE LET m == visit[n]
                     before == done[n - 1]
                     written ==
                         [j \in DOMAIN trace |->
                             [before.trace[j] EXCEPT !.data.activity =
                                 Min(Activity(k, before.trace[j], m),
                                     ActivityUnit)]]
                 IN  [trace |-> written,
                      rel |-> before.rel @@
                              (m :> WeibullFromSegments(Beta,
                                        MttfSegments(written, m))),
                      duty |-> before.duty @@
                               (m :> [j \in DOMAIN trace |->
                                         written[j].data.activity])]
    IN  done[Len(visit)]

\* Unit::compute_reliability of one unit: the traces it writes, the
\* per-mechanism distributions and the activities the mechanisms were given
UnitComputeReliability(u, visit) ==
    [c \in DOMAIN traces[u] |-> ComputeTrace(kind[u], traces[u][c], visit)]

\* pow(1 / alpha, beta), in units of 1 / RateUnit
InvPow(a) ==
    IF a = Inf THEN 0
    ELSE IF a < 0 THEN -a
    ELSE RateUnit \div (a ^ Beta)

\* pow(x, -1 / beta) of x in units of 1 / RateUnit
RootInv(x) ==
    IF x = 0 THEN Inf
    ELSE IF \E a \in 1..MaxAlpha : (a ^ Beta) * x = RateUnit
         THEN CHOOSE a \in 1..MaxAlpha : (a ^ Beta) * x = RateUnit
         ELSE -x

\* WeibullDistribution::operator*; every mechanism has the beta of
\* failure.hh, so the invalid_argument of unequal shapes is never thrown
WeibullProduct(d, other) ==
    [alpha |-> RootInv(InvPow(d.alpha) + InvPow(other.alpha)),
     beta  |-> d.beta]

\* The orders in which an unordered_map keyed by the elements of S can
\* iterate
Orders(S) ==
    {o \in [1..Cardinality(S) -> S] :
        \A j, k \in 1..Cardinality(S) : o[j] = o[k] => j = k}

\* overall_reliabilities[c] = reliabilities[c].begin()->second alone
ComputeOverallFirst(rel, order) ==
    [c \in DOMAIN rel |-> rel[c][order[1]]]

\* overall_reliabilities[c] = reliabilities[c].begin()->second, then
\* *= it->second for the entries after begin(), in the order of iteration
ComputeOverall(rel, order) ==
    [c \in DOMAIN rel |->
        LET prod[k \in 1..Len(order)] ==
                IF k = 1 THEN rel[c][order[1]]
                ELSE WeibullProduct(prod[k - 1], rel[c][order[k]])
        IN  prod[Len(order)]]

\* a reset() that leaves _current_reliability as it is
ResetKeepsReliability(u) ==
    [age |-> 0, current_reliability |-> current_reliability[u],
     failed |-> FALSE, remaining |-> copies[u]]

\* a reset() that leaves _failed as it is
ResetKeepsFailed(u) ==
    [age |-> 0, current_reliability |-> One, failed |-> _failed[u],
     remaining |-> copies[u]]

\* Unit::reset: the fields it assigns
Reset(u) ==
    [age |-> 0, current_reliability |-> One, failed |-> FALSE,
     remaining |-> copies[u]]

\* a set_configuration that walks the whole tree and so also names the failed
\* components below a failed one
SetConfigurationDescends(u) ==
    LET failedOnes == {c \in Range(Walk(<<Root>>)) : Failed(_failed, c)}
        c == IF failedOnes = {} THEN {""} ELSE failedOnes
    IN  IF c \in DOMAIN traces[u] THEN c ELSE {""}

\* a set_configuration without the fallback to {""}
SetConfigurationNoFallback(u) ==
    LET frontier == {c \in Range(ConditionalWalk(<<Root>>, _failed)) :
                        Failed(_failed, c)}
    IN  IF frontier = {} THEN {""} ELSE frontier

\* Unit::set_configuration: the new config of unit u
SetConfiguration(u) ==
    LET frontier == {c \in Range(ConditionalWalk(<<Root>>, _failed)) :
                        Failed(_failed, c)}
        c == IF frontier = {} THEN {""} ELSE frontier
    IN  IF c \in DOMAIN traces[u] THEN c ELSE {""}

\* The numbers the generator hands to uniform_real_distribution: 0, for
\* which the distribution gives r = 0, and the classes 1..MaxDelta of the
\* others
RandomNumbers == 0..MaxDelta

\* The h value of the r that uniform_real_distribution(0, r_cur) makes of the
\* number x: r in [0, r_cur), so h above the current h, or Inf for r = 0
Draw(u, x) ==
    IF IsNaN(current_reliability[u]) THEN NaN
    ELSE IF current_reliability[u] = Inf THEN Inf
    ELSE IF x = 0 THEN Inf
    ELSE current_reliability[u] + x * Scale

\* The h values unit u can draw
Draws(u) == {Draw(u, x) : x \in RandomNumbers}

\* Unit::get_next_event with the draw hr
GetNextEvent(u, hr) ==
    LET next == Inverse(u, config[u], hr)
    IN  IF IsInf(next) THEN Inf
        ELSE XSub(next, Inverse(u, config[u], current_reliability[u]))

\* Unit::update_reliability(dt): the new age
UpdatedAge(u, dt) ==
    LET a == XAdd(age[u], dt)
    IN  IF prev_config[u] # {}
        THEN XSub(a, XSub(Inverse(u, prev_config[u], current_reliability[u]),
                          Inverse(u, config[u], current_reliability[u])))
        ELSE a

\* a failure() that tests remaining before decrementing it (remaining-- == 0)
FailurePostDecrement(u) ==
    [remaining |-> remaining[u] - 1,
     failed |-> (remaining[u] = 0),
     current_reliability |-> IF serial[u] THEN One ELSE current_reliability[u],
     age |-> IF serial[u] THEN 0 ELSE age[u],
     prev_config |-> IF serial[u] THEN {} ELSE prev_config[u]]

\* a failure() that forgets to clear prev_config of a serial unit
FailureKeepsPrevConfig(u) ==
    [remaining |-> remaining[u] - 1,
     failed |-> (remaining[u] - 1 = 0),
     current_reliability |-> IF serial[u] THEN One ELSE current_reliability[u],
     age |-> IF serial[u] THEN 0 ELSE age[u],
     prev_config |-> prev_config[u]]

\* Unit::failure: the fields of unit u after the call
Failure(u) ==
    [remaining |-> remaining[u] - 1,
     failed |-> (remaining[u] - 1 = 0),
     current_reliability |-> IF serial[u] THEN One ELSE current_reliability[u],
     age |-> IF serial[u] THEN 0 ELSE age[u],
     prev_config |-> IF serial[u] THEN {} ELSE prev_config[u]]

\* failed.erase(remove(failed.begin(), failed.end(), u)) for each unit us[k]
\* the conditional walk finds not failed, in order.  When u is no longer in
\* the vector, remove returns end() and erase(end()) is undefined: the build
\* drops the last element of a non-empty vector, or the process crashes.
RemoveUnit(list, u) ==
    LET keep == {k \in DOMAIN list : list[k] # u}
        F[k \in 0..Len(list)] ==
            IF k = 0 THEN <<>>
            ELSE IF k \in keep THEN Append(F[k - 1], list[k]) ELSE F[k - 1]
    IN  F[Len(list)]

EraseUnits(us, list) ==
    LET erase[x \in Seq(UnitSet) \X Seq(UnitSet)] ==
            IF x[1] = <<>> THEN {[crashed |-> FALSE, failed |-> x[2]]}
            ELSE IF Head(x[1]) \in Range(x[2])
                 THEN erase[<<Tail(x[1]), RemoveUnit(x[2], Head(x[1]))>>]
                 ELSE {[crashed |-> TRUE, failed |-> <<>>]} \cup
                      (IF x[2] = <<>> THEN {}
                       ELSE erase[<<Tail(x[1]),
                                    SubSeq(x[2], 1, Len(x[2]) - 1)>>])
    IN  erase[<<us, list>>]

\* Unit::parents_failed(root, units): the vectors it can return
ParentsFailed(fl) ==
    LET visited == ConditionalWalk(<<Root>>, fl)
        alive == SelectSeq(visited, LAMBDA c : IsUnit(c) /\ ~Failed(fl, c))
    IN  EraseUnits(alive, units)

---------------------------------------------------------------------------
(* Inputs: the chip configuration files the model is run on *)

\* The failure dependency graphs: a flat group; a subgroup beside a unit; the
\* README's example, where unit A is a child of two groups.  The root's
\* threshold is drawn from 0..MaxFailures.
Trees ==
    {[units |-> <<"A", "B">>,
      children |-> (Root :> <<"A", "B">>),
      failures |-> (Root :> k)] : k \in 0..MaxFailures}
    \cup
    {[units |-> <<"A", "B", "C">>,
      children |-> (Root :> <<"G1", "C">>) @@ ("G1" :> <<"A", "B">>),
      failures |-> (Root :> k) @@ ("G1" :> 0)] : k \in 0..MaxFailures}
    \cup
    {[units |-> <<"A", "B">>,
      children |-> (Root :> <<"G1", "G2">>) @@ ("G1" :> <<"A", "B">>)
                   @@ ("G2" :> <<"A">>),
      failures |-> (Root :> k) @@ ("G1" :> 1) @@ ("G2" :> 0)] :
        k \in 0..MaxFailures}

RECURSIVE Spares(_, _)
Spares(r, us) ==
    IF us = <<>> THEN 0 ELSE (r[Head(us)].copies - 1) + Spares(r, Tail(us))

\* <redundancy type count>: a unit without the element is serial with one copy
Redundancies(us) ==
    {r \in [Range(us) -> [copies : 1..MaxCopies, serial : BOOLEAN]] :
        /\ Spares(r, us) <= MaxSpares
        /\ \A u \in Range(us) : r[u].copies = 1 => r[u].serial}

\* A data point of a trace file: its time and duration, the quantities the
\* activities are computed from, and the times to failure f the mechanisms
\* find for it when its activity is not zero.  The unit is never active at
\* a point where NBTI finds an infinite time.
Point(time, f) ==
    [time |-> time, duration |-> 1, mttf |-> f,
     data |-> [activity |-> IF f["NBTI"] = Inf THEN 0 ELSE ActivityUnit,
               frequency |-> 1, power |-> 1, peak_power |-> 1]]

\* A trace of one data point at time 1 whose time to failure is m
Trace(m) == <<Point(1, [mech \in Mechanisms |-> m])>>

\* if (traces.count({""}) == 0) traces[{""}] = {{1, 1, defaults}}: the
\* defaults have activity 0, under which the mechanism never wears the unit
SynthesizeFresh(given) ==
    IF fresh \in DOMAIN given THEN given ELSE given @@ (fresh :> Trace(Inf))

\* The traces of the units after their construction, from the <trace>
\* elements given
TraceChoices(us) ==
    LET U == Range(us)
        other(u) == IF u = "A" THEN "B" ELSE IF u = "B" THEN "A" ELSE "G1"
    IN  { [u \in U |-> (fresh :> Trace(1))],
          [u \in U |-> (fresh :> Trace(IF u = "B" THEN 2 ELSE 1))],
          [u \in U |-> (fresh :> Trace(IF u = "B" THEN Inf ELSE 1))],
          [u \in U |-> (fresh :> Trace(1)) @@ ({other(u)} :> Trace(2))],
          [u \in U |-> IF u = "A"
                       THEN SynthesizeFresh({"B"} :> Trace(1))
                       ELSE (fresh :> Trace(1))] }

NoUnit == ""

\* keys with a default in FailureMechanism::FailureMechanism and NBTI::NBTI
TechKeys == {"L", "Vt0_p", "Vt0_n", "tox", "Cox", "alpha"}
NBTIKeys == {"A", "B", "Gamma_IT", "Gamma_HT", "E_Akf", "E_Akr", "E_ADH2",
             "E_AHT"}

\* The built-in value of a key; the values of the files are 1..MaxValue
Default == 0

\* no file name given
NoFile == [given |-> FALSE, found |-> FALSE, lines |-> <<>>]

\* FailureMechanism::read_params: params[tokens[0]] = stod(tokens[1]) for
\* the lines of two tokens that are no comment, a later line replacing an
\* earlier one of the same key; a file that is not found gives no parameter
ReadParams(file) ==
    LET params[k \in 0..Len(file.lines)] ==
            IF k = 0 THEN <<>>
            ELSE IF file.lines[k].kind = "pair"
                 THEN [key \in DOMAIN params[k - 1] \cup {file.lines[k].key} |->
                          IF key = file.lines[k].key THEN file.lines[k].value
                          ELSE params[k - 1][key]]
                 ELSE params[k - 1]
    IN  IF file.found THEN params[Len(file.lines)] ELSE <<>>

\* the messages read_params hands to warn
ReadWarnings(name, file) ==
    IF ~file.found THEN {<<name, "file not found">>}
    ELSE {<<name, "unable to parse line">> :
             k \in {j \in DOMAIN file.lines : file.lines[j].kind = "other"}}

\* p.insert(params.begin(), params.end()) of an unordered_map: a key that is
\* already in p keeps its value
InsertAll(q, params) ==
    [key \in DOMAIN q \cup DOMAIN params |->
        IF key \in DOMAIN q THEN q[key] ELSE params[key]]

\* FailureMechanism::FailureMechanism
FailureMechanismConstructor(tech) ==
    LET defaults == [key \in TechKeys |-> Default]
    IN  IF tech.given THEN InsertAll(defaults, ReadParams(tech)) ELSE defaults

\* NBTI::NBTI: the base constructor, p[key] = default for the keys of NBTI,
\* then the parameters of the NBTI file
NBTIConstructor(tech, nbti) ==
    LET base == FailureMechanismConstructor(tech)
        defaults == [key \in DOMAIN base \cup NBTIKeys |->
                        IF key \in NBTIKeys THEN Default ELSE base[key]]
    IN  IF nbti.given THEN InsertAll(defaults, ReadParams(nbti)) ELSE defaults

\* The <group> section from which Group::Group builds the children ch: a
\* <group> element for each subgroup and a <unit> element for each unit
DocOf(ch) ==
    [g \in DOMAIN ch |->
        [k \in DOMAIN ch[g] |->
            [kind |-> IF ch[g][k] \in DOMAIN ch THEN "group" ELSE "unit",
             name |-> ch[g][k]]]]

Init ==
    /\ \E tr \in Trees :
         /\ units = tr.units
         /\ _children = tr.children
         /\ doc = DocOf(tr.children)
         /\ files = [tech |-> NoFile, nbti |-> NoFile]
         /\ p = NBTIConstructor(NoFile, NoFile)
         /\ failures = tr.failures
         /\ \E r \in Redundancies(tr.units) :
              /\ copies = [u \in Range(tr.units) |-> r[u].copies]
              /\ serial = [u \in Range(tr.units) |-> r[u].serial]
              /\ remaining = [u \in Range(tr.units) |-> r[u].copies]
         /\ traces \in TraceChoices(tr.units)
         /\ reliabilities = [u \in Range(tr.units) |-> <<>>]
         /\ overall_reliabilities = [u \in Range(tr.units) |-> <<>>]
         /\ duty_cycle = [u \in Range(tr.units) |-> <<>>]
         /\ kind = [u \in Range(tr.units) |-> "unit"]
         /\ age = [u \in Range(tr.units) |-> 0]
         /\ current_reliability = [u \in Range(tr.units) |-> One]
         /\ _failed = [u \in Range(tr.units) |-> FALSE]
         /\ config = [u \in Range(tr.units) |-> {}]
         /\ prev_config = [u \in Range(tr.units) |-> {}]
         /\ ttfs = [c \in Range(tr.units) \cup DOMAIN tr.children |-> <<>>]
         /\ calls = [u \in Range(tr.units) |-> 0]
         /\ ttfs_begin =
                [c \in Range(tr.units) \cup DOMAIN tr.children |-> <<>>]
    /\ i = 0
    /\ t = 0
    /\ healthy = {}
    /\ failed_components = {}
    /\ dt_event = Inf
    /\ failed = NoUnit
    /\ pc = "compute"
    /\ cerr = <<>>
    /\ mechanisms = Mechanisms

---------------------------------------------------------------------------
(* main: the pre-compute phase and the Monte-Carlo loop *)

treeVars == <<units, _children, failures, copies, serial, doc, p, files, kind>>
distVars == <<traces, reliabilities, overall_reliabilities, duty_cycle>>

\* for (unit: units) unit->compute_reliability(mechanisms);
ComputeReliability ==
    /\ pc = "compute"
    /\ \E visit \in Orders(mechanisms) :
         LET computed == [u \in UnitSet |-> UnitComputeReliability(u, visit)]
         IN  /\ traces' = [u \in UnitSet |->
                              [c \in DOMAIN traces[u] |-> computed[u][c].trace]]
             /\ duty_cycle' = [u \in UnitSet |->
                                  [c \in DOMAIN traces[u] |-> computed[u][c].duty]]
             /\ reliabilities' = [u \in UnitSet |->
                                     [c \in DOMAIN traces[u] |-> computed[u][c].rel]]
    /\ \E order \in Orders(mechanisms) :
         overall_reliabilities' =
             [u \in UnitSet |-> ComputeOverall(reliabilities'[u], order)]
    /\ pc' = "iter"
    /\ UNCHANGED <<mechanisms, cerr, calls, ttfs_begin, treeVars, age, current_reliability, _failed,
                   remaining, config, prev_config, ttfs, i, t, healthy,
                   failed_components, dt_event, failed>>

\* the head of an iteration: the locals, and reset() of every unit
BeginIteration ==
    /\ pc = "iter"
    /\ i < Iterations
    /\ failed_components' = {}
    /\ healthy' = UnitSet
    /\ t' = 0
    /\ age' = [u \in UnitSet |-> Reset(u).age]
    /\ current_reliability' = [u \in UnitSet |-> Reset(u).current_reliability]
    /\ _failed' = [u \in UnitSet |-> Reset(u).failed]
    /\ remaining' = [u \in UnitSet |-> Reset(u).remaining]
    /\ calls' = [u \in UnitSet |-> 0]
    /\ ttfs_begin' = ttfs
    /\ pc' = "loop"
    /\ UNCHANGED <<mechanisms, cerr, treeVars, distVars, config, prev_config, ttfs, i,
                   dt_event, failed>>

\* i == iterations: the loop over the iterations is left
Finish ==
    /\ pc = "iter"
    /\ ~(i < Iterations)
    /\ pc' = "done"
    /\ UNCHANGED <<mechanisms, cerr, calls, ttfs_begin, treeVars, distVars, age, current_reliability, _failed,
                   remaining, config, prev_config, ttfs, i, t, healthy,
                   failed_components, dt_event, failed>>

\* while (!root->failed()) is false: the iteration ends
RootFailed ==
    /\ pc = "loop"
    /\ Failed(_failed, Root)
    /\ i' = i + 1
    /\ pc' = "iter"
    /\ UNCHANGED <<mechanisms, cerr, calls, ttfs_begin, treeVars, distVars, age, current_reliability, _failed,
                   remaining, config, prev_config, ttfs, t, healthy,
                   failed_components, dt_event, failed>>

\* The warnings "can't find configuration <config> for <name>" that the
\* set_configuration calls of one step write: one for each unit that is not
\* failed and has no trace for the failed components found
ConfigurationWarnings ==
    LET frontier == {c \in Range(ConditionalWalk(<<Root>>, _failed)) :
                        Failed(_failed, c)}
    IN  {<<u, frontier>> : u \in {v \in UnitSet :
             ~_failed[v] /\ frontier # {} /\ frontier \notin DOMAIN traces[v]}}

\* cerr << "warning: ..." for each of the messages
Write(out, messages) ==
    [m \in DOMAIN out \cup messages |->
        IF m \notin DOMAIN out THEN 1
        ELSE IF m \in messages /\ out[m] < MaxRepeats THEN out[m] + 1
        ELSE out[m]]

\* a set_configuration that looks the configuration up with traces[config],
\* which inserts an empty trace for an unknown configuration
SetConfigurationsInsertsTrace ==
    /\ pc = "loop"
    /\ ~Failed(_failed, Root)
    /\ prev_config' = [u \in UnitSet |->
                          IF _failed[u] THEN prev_config[u] ELSE config[u]]
    /\ config' = [u \in UnitSet |->
                     IF _failed[u] THEN config[u] ELSE SetConfiguration(u)]
    /\ traces' = [u \in UnitSet |->
                     IF _failed[u] THEN traces[u]
                     ELSE LET visited == ConditionalWalk(<<Root>>, _failed)
                              frontier == {c \in Range(visited) :
                                              Failed(_failed, c)}
                          IN  IF frontier = {} \/ frontier \in DOMAIN traces[u]
                              THEN traces[u]
                              ELSE traces[u] @@ (frontier :> <<>>)]
    /\ cerr' = Write(cerr, ConfigurationWarnings)
    /\ UNCHANGED mechanisms
    /\ pc' = "sample"
    /\ UNCHANGED <<calls, ttfs_begin, treeVars, reliabilities,
                   overall_reliabilities, duty_cycle, age, current_reliability, _failed,
                   remaining, ttfs, i, t, healthy, failed_components,
                   dt_event, failed>>

\* for (unit: units) if (!unit->failed()) unit->set_configuration(root);
SetConfigurations ==
    /\ pc = "loop"
    /\ ~Failed(_failed, Root)
    /\ prev_config' = [u \in UnitSet |->
                          IF _failed[u] THEN prev_config[u] ELSE config[u]]
    /\ config' = [u \in UnitSet |->
                     IF _failed[u] THEN config[u] ELSE SetConfiguration(u)]
    /\ cerr' = Write(cerr, ConfigurationWarnings)
    /\ UNCHANGED mechanisms
    /\ pc' = "sample"
    /\ UNCHANGED <<calls, ttfs_begin, treeVars, distVars, age, current_reliability, _failed,
                   remaining, ttfs, i, t, healthy, failed_components,
                   dt_event, failed>>

\* for (unit: healthy) { dt = unit->get_next_event(); if (dt_event > dt)
\* ... }: the units are visited in the order the unordered_set iterates, the
\* k-th visited draws with the k-th number of rng, and a NaN or infinite
\* time never passes dt_event > dt
SelectNextEvent(order, rng) ==
    LET sel[k \in 0..Len(order)] ==
            IF k = 0 THEN [dt_event |-> Inf, failed |-> NoUnit]
            ELSE LET dt == GetNextEvent(order[k], Draw(order[k], rng[k]))
                 IN  IF /\ ~IsNaN(dt)
                        /\ ~IsNaN(sel[k - 1].dt_event)
                        /\ sel[k - 1].dt_event > dt
                     THEN [dt_event |-> dt, failed |-> order[k]]
                     ELSE sel[k - 1]
    IN  sel[Len(order)]

\* the sampling of the next event
SampleNextEvent ==
    /\ pc = "sample"
    /\ \E order \in Orders(healthy) :
         \E rng \in [1..Cardinality(healthy) -> RandomNumbers] :
            /\ dt_event' = SelectNextEvent(order, rng).dt_event
            /\ failed' = SelectNextEvent(order, rng).failed
    /\ pc' = "event"
    /\ UNCHANGED <<mechanisms, cerr, calls, ttfs_begin, treeVars, distVars, age, current_reliability, _failed,
                   remaining, config, prev_config, ttfs, i, t, healthy,
                   failed_components>>

\* a continue in the place of the break
StallContinues ==
    /\ pc = "event"
    /\ IsInf(dt_event)
    /\ dt_event' = Inf /\ failed' = NoUnit
    /\ pc' = "loop"
    /\ UNCHANGED <<mechanisms, cerr, calls, ttfs_begin, treeVars, distVars, age,
                   current_reliability, _failed, remaining, config,
                   prev_config, ttfs, i, t, healthy, failed_components>>

\* if (isinf(dt_event)) break;
Stall ==
    /\ pc = "event"
    /\ IsInf(dt_event)
    /\ i' = i + 1
    /\ dt_event' = Inf /\ failed' = NoUnit
    /\ pc' = "iter"
    /\ UNCHANGED <<mechanisms, cerr, calls, ttfs_begin, treeVars, distVars, age, current_reliability, _failed,
                   remaining, config, prev_config, ttfs, t, healthy,
                   failed_components>>

\* for (unit: healthy) unit->update_reliability(dt_event);
UpdateReliability ==
    /\ pc = "event"
    /\ ~IsInf(dt_event)
    /\ age' = [u \in UnitSet |->
                  IF u \in healthy THEN UpdatedAge(u, dt_event) ELSE age[u]]
    /\ current_reliability' =
           [u \in UnitSet |->
               IF u \in healthy
               THEN Reliability(u, config[u], age'[u])
               ELSE current_reliability[u]]
    /\ pc' = "failure"
    /\ UNCHANGED <<mechanisms, cerr, calls, ttfs_begin, treeVars, distVars, _failed, remaining, config,
                   prev_config, ttfs, i, t, healthy, failed_components,
                   dt_event, failed>>

\* failed->failure(); if (failed->failed()) healthy.erase(...); t += dt_event;
FailedUnitFailure ==
    /\ pc = "failure"
    /\ remaining' = [remaining EXCEPT ![failed] = Failure(failed).remaining]
    /\ _failed' = [_failed EXCEPT ![failed] = Failure(failed).failed]
    /\ current_reliability' =
           [current_reliability EXCEPT
               ![failed] = Failure(failed).current_reliability]
    /\ age' = [age EXCEPT ![failed] = Failure(failed).age]
    /\ prev_config' =
           [prev_config EXCEPT ![failed] = Failure(failed).prev_config]
    /\ healthy' = IF Failure(failed).failed THEN healthy \ {failed}
                  ELSE healthy
    /\ calls' = [calls EXCEPT ![failed] = @ + 1]
    /\ t' = t + dt_event
    /\ pc' = "walk"
    /\ UNCHANGED <<mechanisms, cerr, ttfs_begin, treeVars, distVars, config, ttfs, i, failed_components,
                   dt_event, failed>>

\* the op of the walk without the failed_components.count(c) == 0 test
RecordFailuresNoCount(visit, tf, fc) ==
    LET op[x \in Seq(Components) \X [Components -> Seq(Nat)]
                                 \X SUBSET Components] ==
            IF x[1] = <<>> THEN [ttfs |-> x[2], failed_components |-> x[3]]
            ELSE IF Failed(_failed, Head(x[1]))
                 THEN op[<<Tail(x[1]),
                           [x[2] EXCEPT ![Head(x[1])] = Append(@, t)],
                           x[3] \cup {Head(x[1])}>>]
                 ELSE op[<<Tail(x[1]), x[2], x[3]>>]
    IN  op[<<visit, tf, fc>>]

\* the op of the walk over the tree: a failed component not yet in
\* failed_components gets t appended to its ttfs
RecordFailures(visit, tf, fc) ==
    LET op[x \in Seq(Components) \X [Components -> Seq(Nat)]
                                 \X SUBSET Components] ==
            IF x[1] = <<>> THEN [ttfs |-> x[2], failed_components |-> x[3]]
            ELSE IF Failed(_failed, Head(x[1])) /\ Head(x[1]) \notin x[3]
                 THEN op[<<Tail(x[1]),
                           [x[2] EXCEPT ![Head(x[1])] = Append(@, t)],
                           x[3] \cup {Head(x[1])}>>]
                 ELSE op[<<Tail(x[1]), x[2], x[3]>>]
    IN  op[<<visit, tf, fc>>]

\* Component::walk(root, ...) of the loop body
WalkTtfs ==
    /\ pc = "walk"
    /\ LET r == RecordFailures(Walk(<<Root>>), ttfs, failed_components)
       IN  ttfs' = r.ttfs /\ failed_components' = r.failed_components
    /\ pc' = "parents"
    /\ UNCHANGED <<mechanisms, cerr, calls, ttfs_begin, treeVars, distVars, age, current_reliability, _failed,
                   remaining, config, prev_config, i, t, healthy, dt_event,
                   failed>>

\* a loop that calls parents_failed and drops what it returns
MarkParentsFailedNoInsert ==
    /\ pc = "parents"
    /\ \E o \in ParentsFailed(_failed) :
         /\ ~o.crashed
         /\ _failed' = [u \in UnitSet |-> _failed[u] \/ u \in Range(o.failed)]
    /\ dt_event' = Inf /\ failed' = NoUnit
    /\ pc' = "loop"
    /\ UNCHANGED <<mechanisms, cerr, calls, ttfs_begin, treeVars, distVars, age,
                   current_reliability, remaining, config, prev_config, ttfs,
                   i, t, healthy, failed_components>>

\* for (unit: Unit::parents_failed(root, units)) failed_components.insert(unit)
\* parents_failed sets _failed of every unit it returns
MarkParentsFailed ==
    /\ pc = "parents"
    /\ \E o \in ParentsFailed(_failed) :
         /\ ~o.crashed
         /\ _failed' = [u \in UnitSet |-> _failed[u] \/ u \in Range(o.failed)]
         /\ failed_components' = failed_components \cup Range(o.failed)
    /\ dt_event' = Inf /\ failed' = NoUnit
    /\ pc' = "loop"
    /\ UNCHANGED <<mechanisms, cerr, calls, ttfs_begin, treeVars, distVars, age, current_reliability, remaining,
                   config, prev_config, ttfs, i, t, healthy>>

\* parents_failed runs into the undefined erase(end()) and the process dies
Crash ==
    /\ pc = "parents"
    /\ \E o \in ParentsFailed(_failed) : o.crashed
    /\ pc' = "crashed"
    /\ UNCHANGED <<mechanisms, cerr, calls, ttfs_begin, treeVars, distVars, age, current_reliability, _failed,
                   remaining, config, prev_config, ttfs, i, t, healthy,
                   failed_components, dt_event, failed>>

Next ==
    \/ ComputeReliability
    \/ BeginIteration
    \/ Finish
    \/ RootFailed
    \/ SetConfigurations
    \/ SampleNextEvent
    \/ Stall
    \/ UpdateReliability
    \/ FailedUnitFailure
    \/ WalkTtfs
    \/ MarkParentsFailed
    \/ Crash

Spec == Init /\ [][Next]_vars

\* the program runs on: main is one thread and every step of it is taken
LiveSpec == Spec /\ WF_vars(Next)

---------------------------------------------------------------------------
(* The run on any redundancy count the loader takes *)

\* <redundancy count="..."> is read with as_int() and not validated: the
\* chips here have a unit whose count is 0
AnyRedundancies(us) ==
    {r \in [Range(us) -> [copies : 0..MaxCopies, serial : BOOLEAN]] :
        /\ \E u \in Range(us) : r[u].copies = 0
        /\ \A u \in Range(us) : r[u].copies <= 1 => r[u].serial
        /\ Cardinality({u \in Range(us) : r[u].copies > 1}) <= MaxSpares}

\* the mechanism constructed without parameter files
DefaultParameters ==
    /\ files = [tech |-> NoFile, nbti |-> NoFile]
    /\ p = NBTIConstructor(NoFile, NoFile)

\* main with the units read, for the chip with the tree tr, the redundancies
\* r, the traces tc and the selected mechanisms ms
Loaded(tr, r, tc, ms) ==
    /\ units = tr.units
    /\ failures = tr.failures
    /\ copies = [u \in Range(tr.units) |-> r[u].copies]
    /\ serial = [u \in Range(tr.units) |-> r[u].serial]
    /\ remaining = [u \in Range(tr.units) |-> r[u].copies]
    /\ traces = tc
    /\ reliabilities = [u \in Range(tr.units) |-> <<>>]
    /\ overall_reliabilities = [u \in Range(tr.units) |-> <<>>]
    /\ duty_cycle = [u \in Range(tr.units) |-> <<>>]
    /\ age = [u \in Range(tr.units) |-> 0]
    /\ current_reliability = [u \in Range(tr.units) |-> One]
    /\ _failed = [u \in Range(tr.units) |-> FALSE]
    /\ config = [u \in Range(tr.units) |-> {}]
    /\ prev_config = [u \in Range(tr.units) |-> {}]
    /\ ttfs = [c \in Range(tr.units) \cup DOMAIN tr.children |-> <<>>]
    /\ calls = [u \in Range(tr.units) |-> 0]
    /\ ttfs_begin = [c \in Range(tr.units) \cup DOMAIN tr.children |-> <<>>]
    /\ i = 0
    /\ t = 0
    /\ healthy = {}
    /\ failed_components = {}
    /\ dt_event = Inf
    /\ failed = NoUnit
    /\ cerr = <<>>
    /\ mechanisms = ms

\* main before the reliabilities are computed: the tree is built as well
Constructed(tr, r, tc, ms) ==
    /\ Loaded(tr, r, tc, ms)
    /\ DefaultParameters
    /\ kind = [u \in Range(tr.units) |-> "unit"]
    /\ _children = tr.children
    /\ doc = DocOf(tr.children)
    /\ pc = "compute"

\* every unit with a fresh trace alone
FreshTraces(us) == [u \in Range(us) |-> (fresh :> Trace(1))]

InitAnyCount ==
    \E tr \in Trees :
        \E r \in AnyRedundancies(tr.units) :
            Constructed(tr, r, FreshTraces(tr.units), Mechanisms)

\* the steps of main; a unit's failure() calls since its reset() are followed
\* up to the first one beyond its copies
NextAnyCount ==
    \/ ComputeReliability
    \/ BeginIteration
    \/ Finish
    \/ RootFailed
    \/ SetConfigurations
    \/ SampleNextEvent
    \/ Stall
    \/ UpdateReliability
    \/ pc = "failure" /\ calls[failed] <= copies[failed] /\ FailedUnitFailure
    \/ WalkTtfs
    \/ MarkParentsFailed
    \/ Crash

SpecAnyCount == InitAnyCount /\ [][NextAnyCount]_vars

---------------------------------------------------------------------------
(* The run on graphs in which groups share a unit *)

\* A unit may be named by several groups (Group::Group looks it up by name):
\* B in two groups beside A and C; A in two groups of its own beside a group
\* of B and C.  The root's threshold is drawn from 1..MaxFailures.
SharedTrees ==
    {[units |-> <<"A", "B", "C">>,
      children |-> (Root :> <<"G1", "G2">>) @@ ("G1" :> <<"A", "B">>)
                   @@ ("G2" :> <<"B", "C">>),
      failures |-> (Root :> k) @@ ("G1" :> 0) @@ ("G2" :> 1)] :
        k \in 1..MaxFailures}
    \cup
    {[units |-> <<"A", "B", "C">>,
      children |-> (Root :> <<"G1", "G2", "G3">>) @@ ("G1" :> <<"A">>)
                   @@ ("G2" :> <<"A">>) @@ ("G3" :> <<"B", "C">>),
      failures |-> (Root :> k) @@ ("G1" :> 0) @@ ("G2" :> 0) @@ ("G3" :> 0)] :
        k \in 1..MaxFailures}

InitShared ==
    \E tr \in SharedTrees :
        \E r \in Redundancies(tr.units) :
            Constructed(tr, r, FreshTraces(tr.units), Mechanisms)

SpecShared == InitShared /\ [][Next]_vars

---------------------------------------------------------------------------
(* The computation of the distributions for any selection of mechanisms *)

\* the mechanisms --aging-mechanisms can name
AllMechanisms == {"NBTI", "EM", "HCI", "TDDB"}

\* main exits when no mechanism is selected
Selections == (SUBSET AllMechanisms) \ {{}}

\* The times to failure the mechanisms find for a data point
MttfChoices == [AllMechanisms -> {1, 2, Inf}]

\* Pairs of data points are drawn from these
MttfPairChoices ==
    {[m \in AllMechanisms |-> 1],
     [m \in AllMechanisms |-> Inf],
     ("NBTI" :> 1) @@ ("EM" :> 2) @@ ("HCI" :> Inf) @@ ("TDDB" :> 2),
     ("NBTI" :> 2) @@ ("EM" :> Inf) @@ ("HCI" :> 2) @@ ("TDDB" :> 1)}

\* The model keeps the traces whose distributions have a whole scale that
\* divides MaxAlpha, or an infinite one
WholeScale(trace) ==
    \A m \in AllMechanisms :
        LET mttfs == MttfSegments(trace, m)
        IN  \/ SumRates(mttfs) = 0
            \/ /\ (TotalTime(mttfs) * MttfUnit) % SumRates(mttfs) = 0
               /\ MaxAlpha % ((TotalTime(mttfs) * MttfUnit) \div SumRates(mttfs)) = 0

\* Traces of one data point at time 1, or of two at times 1 and 2
ComputeTraces ==
    {tr \in {<<Point(1, f)>> : f \in MttfChoices}
             \cup {<<Point(1, f), Point(2, g)>> :
                       f \in MttfPairChoices, g \in MttfPairChoices} :
        WholeScale(tr)}

\* Unit A with a fresh trace, and with or without a trace for the
\* configuration in which B is failed; unit B with a fresh trace
ComputeTraceChoices ==
    {("A" :> (fresh :> ta)) @@ ("B" :> (fresh :> tb)) :
        ta \in ComputeTraces,
        tb \in {<<Point(1, f)>> : f \in MttfPairChoices}}
    \cup
    {("A" :> ((fresh :> <<Point(1, f)>>) @@ ({"B"} :> tc)))
        @@ ("B" :> (fresh :> <<Point(1, f)>>)) :
        f \in MttfPairChoices,
        tc \in {tr \in ComputeTraces : tr[1].mttf \in MttfPairChoices}}

InitCompute ==
    \E ms \in Selections, tc \in ComputeTraceChoices :
        Constructed([units |-> <<"A", "B">>,
                     children |-> (Root :> <<"A", "B">>),
                     failures |-> (Root :> 0)],
                    [u \in {"A", "B"} |-> [copies |-> 1, serial |-> TRUE]],
                    tc, ms)

NextCompute == ComputeReliability

SpecCompute == InitCompute /\ [][NextCompute]_vars

---------------------------------------------------------------------------
(* The construction of the tree from the <group> section *)

\* most elements written under the root group
MaxElements == 3

\* The elements a group can hold: <unit> elements naming a unit of the first
\* section (A, B) or no unit of it (X), a <group> element, and an element of
\* another type
UnitElements ==
    {[kind |-> "unit", name |-> n] : n \in {"A", "B", "X"}}

Elements ==
    UnitElements \cup {[kind |-> "group", name |-> "G1"],
                      [kind |-> "trace", name |-> ""]}

\* The <group> sections: a root of 1..MaxElements elements with at most one
\* subgroup, which holds one or two <unit> elements
Docs ==
    LET roots == {e \in UNION {[1..n -> Elements] : n \in 1..MaxElements} :
                     Cardinality({k \in DOMAIN e : e[k].kind = "group"}) <= 1}
        subs == UNION {[1..n -> UnitElements] : n \in 1..2}
    IN  {(Root :> e) : e \in {r \in roots :
                                \A k \in DOMAIN r : r[k].kind # "group"}}
        \cup
        {(Root :> e) @@ ("G1" :> g) :
            e \in {r \in roots : \E k \in DOMAIN r : r[k].kind = "group"},
            g \in subs}

\* Group::Group: the children made of the elements of one group, for the
\* units us of the first section
GroupChildren(elements, us) ==
    LET made[k \in 0..Len(elements)] ==
            IF k = 0 THEN <<>>
            ELSE IF elements[k].kind = "group"
                 THEN Append(made[k - 1], elements[k].name)
            ELSE IF elements[k].kind = "unit"
                 THEN IF elements[k].name \in Range(us)
                      THEN Append(made[k - 1], elements[k].name)
                      ELSE made[k - 1]
            ELSE made[k - 1]
    IN  made[Len(elements)]

InitGroup ==
    \E d \in Docs, k \in 0..MaxFailures :
        /\ Loaded([units |-> <<"A", "B">>,
                   children |-> d,
                   failures |-> [g \in DOMAIN d |-> IF g = Root THEN k ELSE 0]],
                  [u \in {"A", "B"} |-> [copies |-> 1, serial |-> TRUE]],
                  FreshTraces(<<"A", "B">>), Mechanisms)
        /\ DefaultParameters
        /\ kind = [u \in {"A", "B"} |-> "unit"]
        /\ doc = d
        /\ _children = [g \in DOMAIN d |-> <<>>]
        /\ pc = "construct"

\* root = make_shared<Group>(doc.child("group"), units), every element being
\* a <group> or a <unit>
ConstructGroups ==
    /\ pc = "construct"
    /\ \A g \in DOMAIN doc : \A k \in DOMAIN doc[g] :
          doc[g][k].kind \in {"group", "unit"}
    /\ _children' = [g \in DOMAIN doc |-> GroupChildren(doc[g], units)]
    /\ pc' = "compute"
    /\ UNCHANGED <<units, failures, copies, serial, doc, p, files, kind,
                   distVars, mechanisms,
                   cerr, calls, ttfs_begin, age, current_reliability, _failed,
                   remaining, config, prev_config, ttfs, i, t, healthy,
                   failed_components, dt_event, failed>>

\* cerr << "unknown component type " << child.name(); exit(1);
ConstructExits ==
    /\ pc = "construct"
    /\ \E g \in DOMAIN doc : \E k \in DOMAIN doc[g] :
          /\ doc[g][k].kind \notin {"group", "unit"}
          /\ cerr' = Write(cerr, {<<"unknown component type", doc[g][k].kind>>})
    /\ pc' = "exited"
    /\ UNCHANGED <<treeVars, distVars, mechanisms, calls, ttfs_begin, age,
                   current_reliability, _failed, remaining, config, prev_config,
                   ttfs, i, t, healthy, failed_components, dt_event, failed>>

NextGroup == ConstructGroups \/ ConstructExits

SpecGroup == InitGroup /\ [][NextGroup]_vars

---------------------------------------------------------------------------
(* The construction of the NBTI mechanism from its parameter files *)

\* The lines of a parameter file: a key and a value separated by a tab (for
\* the recognised keys L and A and the key K no mechanism reads), a comment,
\* a line of another number of tokens
FileLines ==
    {[kind |-> "pair", key |-> k, value |-> v] :
        k \in {"L", "A", "K"}, v \in 1..MaxValue}
    \cup {[kind |-> "comment", key |-> "", value |-> 0],
          [kind |-> "other", key |-> "", value |-> 0]}

\* no file name, the name of no file, or a file of up to MaxLines lines
ParameterFiles ==
    {NoFile, [given |-> TRUE, found |-> FALSE, lines |-> <<>>]}
    \cup {[given |-> TRUE, found |-> TRUE, lines |-> l] :
             l \in UNION {[1..n -> FileLines] : n \in 0..MaxLines}}

\* warn(...): a message is written the first time it is given
Warn(out, messages) ==
    [m \in DOMAIN out \cup messages |->
        IF m \in DOMAIN out THEN out[m] ELSE 1]

\* main before the mechanism is made and anything is read
InitParameters ==
    /\ Loaded([units |-> <<>>, children |-> <<>>, failures |-> <<>>],
              <<>>, <<>>, Mechanisms)
    /\ _children = <<>>
    /\ kind = <<>>
    /\ doc = <<>>
    /\ files \in [tech : ParameterFiles, nbti : ParameterFiles]
    /\ p = <<>>
    /\ pc = "mechanisms"

\* NBTI::NBTI(tech_file, nbti_file)
ConstructNBTI ==
    /\ pc = "mechanisms"
    /\ p' = NBTIConstructor(files.tech, files.nbti)
    /\ cerr' = Warn(cerr,
                    (IF files.tech.given
                     THEN ReadWarnings("tech", files.tech) ELSE {})
                    \cup (IF files.nbti.given
                          THEN ReadWarnings("nbti", files.nbti) ELSE {}))
    /\ pc' = "units"
    /\ UNCHANGED <<units, _children, failures, copies, serial, doc, files,
                   kind, distVars, mechanisms, calls, ttfs_begin, age,
                   current_reliability, _failed, remaining, config, prev_config,
                   ttfs, i, t, healthy, failed_components, dt_event, failed>>

NextParameters == ConstructNBTI

SpecParameters == InitParameters /\ [][NextParameters]_vars

---------------------------------------------------------------------------
(* The run on a graph with a group inside a subgroup *)

\* Unit A alone in a group G2 that is a child of G1 beside unit B; unit C
\* beside G1.  The root's threshold is drawn from 1..MaxFailures.
NestedTrees ==
    {[units |-> <<"A", "B", "C">>,
      children |-> (Root :> <<"G1", "C">>) @@ ("G1" :> <<"G2", "B">>)
                   @@ ("G2" :> <<"A">>),
      failures |-> (Root :> k) @@ ("G1" :> 0) @@ ("G2" :> 0)] :
        k \in 1..MaxFailures}

InitNested ==
    \E tr \in NestedTrees :
        \E r \in Redundancies(tr.units) :
            Constructed(tr, r, FreshTraces(tr.units), Mechanisms)

\* the steps of main; no unit is a child of two groups, and parents_failed
\* finds every unit it erases
NextNested ==
    \/ ComputeReliability
    \/ BeginIteration
    \/ Finish
    \/ RootFailed
    \/ SetConfigurations
    \/ SampleNextEvent
    \/ Stall
    \/ UpdateReliability
    \/ FailedUnitFailure
    \/ WalkTtfs
    \/ MarkParentsFailed

SpecNested == InitNested /\ [][NextNested]_vars

---------------------------------------------------------------------------
(* The activities of the unit classes *)

\* type="unit", "core", "logic" and "memory" of a <unit> element
Kinds == {"unit", "core", "logic", "memory"}

\* The activity column of a trace file: -1, 0, 1/2, 1 and 2
RawActivities ==
    {0 - ActivityUnit, 0, ActivityUnit \div 2, ActivityUnit, 2 * ActivityUnit}

\* The power column of a trace file, the peak power being 1
RawPowers == {0 - 1, 0, 1, 2}

\* A data point with the activity a and the power w, for which every
\* mechanism finds the time to failure 1 when the activity is not zero
ActivityPoint(time, a, w) ==
    [Point(time, [m \in AllMechanisms |-> 1]) EXCEPT !.data.activity = a,
                                                     !.data.power = w]

\* Unit A, of any class, with one data point; unit B a plain unit
InitActivity ==
    \E ms \in Selections, k \in Kinds, a \in RawActivities, w \in RawPowers :
        /\ Loaded([units |-> <<"A", "B">>,
                   children |-> (Root :> <<"A", "B">>),
                   failures |-> (Root :> 0)],
                  [u \in {"A", "B"} |-> [copies |-> 1, serial |-> TRUE]],
                  ("A" :> (fresh :> <<ActivityPoint(1, a, w)>>))
                      @@ ("B" :> (fresh :> <<ActivityPoint(1, ActivityUnit, 1)>>)),
                  ms)
        /\ DefaultParameters
        /\ kind = ("A" :> k) @@ ("B" :> "unit")
        /\ _children = (Root :> <<"A", "B">>)
        /\ doc = DocOf(Root :> <<"A", "B">>)
        /\ pc = "compute"

NextActivity == ComputeReliability

SpecActivity == InitActivity /\ [][NextActivity]_vars

---------------------------------------------------------------------------
(* Claims *)

FailedChildren(fl, g) ==
    {k \in DOMAIN _children[g] : Failed(fl, _children[g][k])}

\* the states of an iteration in progress
InIteration == pc \notin {"compute", "iter", "done"}

\* C1: for every group and every assignment of failed / not failed to the
\* units (hence to its direct children), the group is failed if and only if
\* the number of its failed direct children is strictly greater than its
\* failures threshold.
C1_GroupFailedIffMoreThanFailures ==
    \A fl \in [UnitSet -> BOOLEAN] : \A g \in Groups :
        GroupFailed(fl, g) <=> Cardinality(FailedChildren(fl, g)) > failures[g]

\* C1 witness: the simulation reaches a group all of whose children are
\* failed and that is not failed, beside a group that is failed while one of
\* its children is not.
C1_Witness ==
    /\ \E g \in Groups :
         /\ FailedChildren(_failed, g) = DOMAIN _children[g]
         /\ ~GroupFailed(_failed, g)
    /\ \E g \in Groups :
         /\ FailedChildren(_failed, g) # DOMAIN _children[g]
         /\ GroupFailed(_failed, g)

C3_OneTtfPerIteration ==
    /\ [][\A c \in Components :
            \/ ttfs'[c] = ttfs[c]
            \/ /\ pc = "walk"
               /\ ttfs'[c] = Append(ttfs[c], t)
               /\ c \notin failed_components
               /\ c \in failed_components']_vars
    /\ [][pc' # "loop" \/ pc # "iter"
            => failed_components \subseteq failed_components']_vars
    /\ [](\A c \in Components :
            Len(ttfs[c]) <= i + (IF InIteration /\ c \in failed_components
                                 THEN 1 ELSE 0))

\* C3 witness: at the end of the run a unit that is a child of two groups
\* has one entry per iteration.
C3_Witness ==
    /\ pc = "done"
    /\ \E u \in UnitSet :
         /\ Cardinality({g \in Groups : u \in Range(_children[g])}) > 1
         /\ Len(ttfs[u]) = Iterations

\* C4: when an iteration stalls (the least next-event time over the healthy
\* units is +infinity while the root is not failed), no component's ttfs
\* holds an entry appended during that iteration.
C4_StalledIterationAppendsNothing ==
    (pc = "event" /\ IsInf(dt_event)) => ttfs = ttfs_begin

C6_SerialRejuvenation ==
    [][(pc = "failure" /\ serial[failed] /\ remaining[failed] > 1) =>
          /\ age'[failed] = 0
          /\ current_reliability'[failed] = One
          /\ prev_config'[failed] = {}
          /\ remaining'[failed] = remaining[failed] - 1
          /\ ~_failed'[failed]]_vars

\* C6 witness: a serial unit with a spare has had its first failure() after
\* another event of the iteration had aged it.
C6_Witness ==
    /\ pc = "walk"
    /\ serial[failed]
    /\ remaining[failed] >= 1
    /\ calls[failed] = 1
    /\ failed_components # {}
    /\ age[failed] = 0
    /\ prev_config[failed] = {}

\* The next event time of unit u for the draw hr, from its distribution for
\* the fresh configuration and the reliability 1 alone
FreshNextEvent(u, hr) ==
    LET next == WeibullInverse(overall_reliabilities[u][fresh], hr)
    IN  IF IsInf(next) THEN Inf
        ELSE XSub(next, WeibullInverse(overall_reliabilities[u][fresh], One))

\* C7: after the reset() of an iteration every unit has current_reliability
\* 1, age 0, _failed false and remaining = copies, and at the first sampling
\* of the iteration get_next_event() draws below reliability 1 and returns
\* what the fresh configuration's overall_reliability alone gives.
C7_ResetFidelity ==
    \A u \in UnitSet :
        /\ (pc = "loop" /\ t = 0) =>
              /\ current_reliability[u] = One
              /\ age[u] = 0
              /\ ~_failed[u]
              /\ remaining[u] = copies[u]
        /\ (pc = "sample" /\ t = 0) =>
              /\ Draws(u) = {One + d * Scale : d \in 1..MaxDelta} \cup {Inf}
              /\ \A hr \in Draws(u) : GetNextEvent(u, hr) = FreshNextEvent(u, hr)

\* C7 witness: the first sampling of the second iteration, with a unit that
\* ended the first iteration in a configuration other than fresh.
C7_Witness ==
    /\ pc = "sample"
    /\ t = 0
    /\ i = 1
    /\ \E u \in UnitSet : prev_config[u] \notin {{}, fresh}

\* C8: after the reset() of any iteration prev_config is the empty
\* configuration.
C8_ResetClearsPrevConfig ==
    (pc = "loop" /\ t = 0) => \A u \in UnitSet : prev_config[u] = {}

\* C9: once compute_reliability has run, no step changes a unit's traces,
\* per-mechanism reliabilities or overall_reliabilities (nor the tree and
\* the redundancy the units were built with).
C9_DistributionsReadOnly ==
    [][pc # "compute" => UNCHANGED <<distVars, treeVars>>]_vars

\* C9 witness: the run has ended, a unit with two traces has computed
\* distributions for both, failed, and left the fresh configuration.
C9_Witness ==
    /\ pc = "done"
    /\ \E u \in UnitSet :
         /\ Cardinality(DOMAIN traces[u]) = 2
         /\ DOMAIN overall_reliabilities[u] = DOMAIN traces[u]
         /\ DOMAIN reliabilities[u] = DOMAIN traces[u]
         /\ ttfs[u] # <<>>
         /\ config[u] # fresh

\* C10 as claimed: in every state, for every unit, _failed holds if and only
\* if remaining = 0.
C10_FailedIffNoneRemaining ==
    \A u \in UnitSet : _failed[u] <=> remaining[u] = 0

\* C10 as amended: remaining = 0 implies _failed, and a unit that is _failed
\* with remaining > 0 is one that parents_failed marked in this iteration (it
\* is in failed_components).
C10_NoneRemainingImpliesFailed ==
    \A u \in UnitSet :
        /\ remaining[u] = 0 => _failed[u]
        /\ (_failed[u] /\ remaining[u] # 0) =>
              (remaining[u] > 0 /\ u \in failed_components)

\* C10 witness: one unit has failed by its own last failure() and another
\* is marked failed with all its copies remaining, the root not failed.
C10_Witness ==
    /\ pc = "loop"
    /\ ~Failed(_failed, Root)
    /\ \E u \in UnitSet : _failed[u] /\ remaining[u] = 0
    /\ \E u \in UnitSet : _failed[u] /\ remaining[u] = copies[u]

\* C11: in every state every unit has 0 <= remaining <= copies, and failure()
\* is not applied to a unit whose remaining is 0, whatever redundancy count
\* the loader took.
C11_RemainingWithinCopies ==
    /\ \A u \in UnitSet : 0 <= remaining[u] /\ remaining[u] <= copies[u]
    /\ pc = "failure" => remaining[failed] > 0

\* C12: in every state every unit that is not failed has
\* 0 < current_reliability <= 1 (an h value that is a number, at least that
\* of 1 and below that of 0).
C12_ReliabilityInUnitInterval ==
    \A u \in UnitSet :
        ~_failed[u] =>
            /\ IsFinite(current_reliability[u])
            /\ current_reliability[u] >= One

\* The components that a path from the root reaches through components that
\* are not failed: the root, and the children of a reached component that is
\* not failed
RECURSIVE ReachedThroughHealthy(_, _)
ReachedThroughHealthy(fl, R) ==
    LET more == R \cup UNION {Range(Children(c)) : c \in {d \in R : ~Failed(fl, d)}}
    IN  IF more = R THEN R ELSE ReachedThroughHealthy(fl, more)

\* the topmost failed components
Topmost(fl) == {c \in ReachedThroughHealthy(fl, {Root}) : Failed(fl, c)}

\* C13 as claimed: after set_configuration on a unit its config is the set of
\* names of the topmost failed components, or {""} when nothing is failed.
C13_ConfigIsFrontier ==
    pc = "sample" =>
        \A u \in UnitSet :
            ~_failed[u] =>
                config[u] = (IF Topmost(_failed) = {} THEN fresh
                             ELSE Topmost(_failed))

\* C13 as amended: set_configuration leaves config = the set of names of the
\* topmost failed components when that set is a key of the unit's traces, and
\* {""} when it is not or when nothing is failed; prev_config is the config
\* of before the call; a failed unit, which main skips, keeps both.
C13_ConfigIsCoveredFrontier ==
    [][pc = "loop" /\ pc' = "sample" =>
          \A u \in UnitSet :
              IF _failed[u]
              THEN config'[u] = config[u] /\ prev_config'[u] = prev_config[u]
              ELSE /\ prev_config'[u] = config[u]
                   /\ config'[u] =
                         (IF Topmost(_failed) # {}
                             /\ Topmost(_failed) \in DOMAIN traces[u]
                          THEN Topmost(_failed) ELSE fresh)]_vars

\* C13 witness: set_configuration has just moved a unit from the fresh
\* configuration to the one of a failed group that has a failed unit below
\* it.
C13_Witness ==
    /\ pc = "sample"
    /\ \E u \in UnitSet :
         /\ ~_failed[u]
         /\ prev_config[u] = fresh
         /\ config[u] = Topmost(_failed)
         /\ \E g \in config[u] \cap Groups :
               \E k \in DOMAIN _children[g] : Failed(_failed, _children[g][k])

\* C14: every unit has a trace for {""} and, once compute_reliability has
\* run, a distribution for every trace; a config or prev_config that
\* set_configuration has assigned is a key of the unit's traces, and every
\* unit whose distribution the loop looks up has had its config assigned.
C14_ConfigHasDistribution ==
    \A u \in UnitSet :
        /\ fresh \in DOMAIN traces[u]
        /\ pc # "compute" =>
              /\ DOMAIN reliabilities[u] = DOMAIN traces[u]
              /\ DOMAIN overall_reliabilities[u] = DOMAIN traces[u]
        /\ config[u] # {} => config[u] \in DOMAIN traces[u]
        /\ prev_config[u] # {} => prev_config[u] \in DOMAIN traces[u]
        /\ (pc \in {"sample", "event", "failure"} /\ u \in healthy) =>
              config[u] # {}

\* C14 witness: a unit that is not failed and has no trace for the failed
\* components there are has been set to {""} and taken through an event,
\* beside a unit whose trace for {""} was not given.
C14_Witness ==
    /\ pc = "walk"
    /\ \E u \in healthy :
         /\ ~_failed[u]
         /\ Topmost(_failed) # {}
         /\ Topmost(_failed) \notin DOMAIN traces[u]
         /\ config[u] = fresh
         /\ prev_config[u] = fresh
    /\ \E u \in UnitSet : traces[u] = SynthesizeFresh({"B"} :> Trace(1))

\* C15: the warning of set_configuration for a configuration a unit has no
\* trace for is written to the standard error stream at most once for each
\* unit and configuration.
C15_WarningWrittenOnce ==
    \A m \in DOMAIN cerr : cerr[m] <= 1

\* C16: when parents_failed has run, every unit that no path from the root
\* reaches through components that were not failed (a unit enclosed by
\* groups that had failed) has _failed = true.
C16_EnclosedUnitsFailed ==
    [][(pc = "parents" /\ pc' = "loop") =>
          \A u \in UnitSet :
              u \notin ReachedThroughHealthy(_failed, {Root}) => _failed'[u]]_vars

\* C17: a unit whose ttfs has an entry of the current iteration has had its
\* remaining brought to 0 by its own failure() in this iteration: the walk
\* appends to a unit's ttfs only for the unit whose failure() has just made
\* its last copy fail, and the units parents_failed marks are put in
\* failed_components with their ttfs as they were.
C17_NoTtfForPromotedUnits ==
    /\ [][pc = "walk" =>
            \A u \in UnitSet :
                ttfs'[u] # ttfs[u] =>
                    u = failed /\ remaining[u] = 0 /\ calls[u] = copies[u]]_vars
    /\ [][pc = "parents" =>
            /\ ttfs' = ttfs
            /\ \A u \in UnitSet :
                  (_failed'[u] /\ ~_failed[u]) => u \in failed_components']_vars
    /\ [](\A u \in UnitSet : ttfs[u] # ttfs_begin[u] => remaining[u] = 0)

\* C17 witness: the walk has run while a unit marked by parents_failed, all
\* its copies remaining, was in failed_components with no entry of this
\* iteration.
C17_Witness ==
    /\ pc = "parents"
    /\ \E u \in UnitSet \ {failed} :
         /\ _failed[u]
         /\ remaining[u] = copies[u]
         /\ u \in failed_components
         /\ ttfs[u] = ttfs_begin[u]
    /\ ttfs[failed] # ttfs_begin[failed]

\* C18: at every boundary between two steps of the event loop a unit that is
\* not failed and has had a configuration set has age = inverse(config,
\* current_reliability), and an update_reliability(dt) that follows a change
\* of configuration leaves age = inverse(config, r) + dt, r being the
\* reliability before the call.
C18_EquivalentAge ==
    /\ [](pc = "loop" =>
            \A u \in UnitSet :
                (~_failed[u] /\ config[u] # {}) =>
                    age[u] = Inverse(u, config[u], current_reliability[u]))
    /\ [][(pc = "event" /\ pc' = "failure") =>
            \A u \in healthy :
                (~_failed[u] /\ prev_config[u] # config[u]) =>
                    age'[u] = XAdd(Inverse(u, config[u], current_reliability[u]),
                                   dt_event)]_vars

\* C19: after compute_reliability the distribution of a trace and a
\* mechanism has alpha = (sum of durations) / sum_i (duration_i / alpha_i)
\* with alpha_i = mttf_i / tgamma(1 / beta + 1), the segments of infinite
\* mttf adding nothing to the sum (alpha is infinite when all are); so the
\* distribution of a single segment of finite MTTF M has mttf() = M.
C19_AlphaFromSegments ==
    pc # "compute" =>
        \A u \in UnitSet : \A c \in DOMAIN traces[u] : \A m \in mechanisms :
            LET mttfs == MttfSegments(traces[u][c], m)
                d == reliabilities[u][c][m]
            IN  /\ SumRates(mttfs) = 0 => d.alpha = Inf
                /\ SumRates(mttfs) # 0 =>
                      d.alpha * GammaNum * SumRates(mttfs)
                          = TotalTime(mttfs) * MttfUnit * GammaDen
                /\ (Len(mttfs) = 1 /\ mttfs[1].mttf # Inf) =>
                      WeibullMttf(d) = mttfs[1].mttf * GammaDen

\* The sum over the mechanisms ms of pow(1 / alpha, beta) of the
\* distributions rel[m]
RECURSIVE SumInvPow(_, _)
SumInvPow(rel, ms) ==
    IF ms = {} THEN 0
    ELSE LET m == CHOOSE x \in ms : TRUE
         IN  InvPow(rel[m].alpha) + SumInvPow(rel, ms \ {m})

\* C20: after compute_reliability every configuration with a trace has a
\* distribution for every selected mechanism and an overall distribution
\* whose pow(1 / alpha, beta) is the sum of theirs, and compute_reliability
\* leaves the overall distributions that every order of the mechanisms
\* gives.
C20_OverallIsProduct ==
    /\ [](pc # "compute" =>
            \A u \in UnitSet :
                /\ DOMAIN reliabilities[u] = DOMAIN traces[u]
                /\ DOMAIN overall_reliabilities[u] = DOMAIN traces[u]
                /\ \A c \in DOMAIN traces[u] :
                      /\ DOMAIN reliabilities[u][c] = mechanisms
                      /\ overall_reliabilities[u][c].beta = Beta
                      /\ InvPow(overall_reliabilities[u][c].alpha)
                            = SumInvPow(reliabilities[u][c], mechanisms))
    /\ [](pc # "compute" =>
            \A order \in Orders(mechanisms) :
                overall_reliabilities =
                    [u \in UnitSet |->
                        ComputeOverall(reliabilities[u], order)])

\* C20 witness: three or more mechanisms are selected and a unit with two
\* traces has an overall distribution that is none of the per-mechanism
\* ones, these not all being the same.
C20_Witness ==
    /\ pc # "compute"
    /\ Cardinality(mechanisms) >= 3
    /\ \E u \in UnitSet :
         /\ Cardinality(DOMAIN traces[u]) = 2
         /\ \E c \in DOMAIN traces[u] :
              /\ \A m \in mechanisms :
                    overall_reliabilities[u][c] # reliabilities[u][c][m]
              /\ \E m, n \in mechanisms :
                    reliabilities[u][c][m] # reliabilities[u][c][n]

\* C21: the unit selected as the next to fail and the time of its failure are
\* decided by the state at the sampling and the sequence of random numbers
\* alone: whatever the order in which the healthy set is visited, the same
\* numbers select the same unit at the same time (and so leave the same
\* ttfs).
C21_SelectionDecidedByNumbers ==
    pc = "sample" =>
        \A rng \in [1..Cardinality(healthy) -> RandomNumbers] :
            \A o1, o2 \in Orders(healthy) :
                SelectNextEvent(o1, rng) = SelectNextEvent(o2, rng)

\* C22: when a <group> holds a <unit> element whose name is no unit of the
\* first section, the construction of the tree ends the program: it never
\* goes on to compute with a group built without that child.
C22_UnknownUnitIsFatal ==
    [][(/\ pc = "construct"
        /\ \E g \in DOMAIN doc : \E k \in DOMAIN doc[g] :
              doc[g][k].kind = "unit" /\ doc[g][k].name \notin UnitSet)
       => pc' = "exited"]_vars

\* The values the found files of the mechanism give for a key
GivenValues(key) ==
    UNION {{f.lines[k].value :
               k \in {j \in DOMAIN f.lines : /\ f.lines[j].kind = "pair"
                                             /\ f.lines[j].key = key}} :
           f \in {g \in {files.tech, files.nbti} : g.given /\ g.found}}

\* C23: after the construction of NBTI every recognised key has in p a value
\* its parameter files give when they give one, and the built-in default when
\* they give none.
C23_FileValuesUsed ==
    pc = "units" =>
        \A key \in TechKeys \cup NBTIKeys :
            /\ key \in DOMAIN p
            /\ GivenValues(key) # {} => p[key] \in GivenValues(key)
            /\ GivenValues(key) = {} => p[key] = Default

\* C24: every time get_next_event can give a healthy unit is +infinity or a
\* number >= 0, the simulation time t never decreases within an iteration,
\* and a TTF recorded in an iteration is >= the TTFs recorded before it in
\* the same iteration.
C24_EventsOrderedByTime ==
    /\ [](pc = "sample" =>
            \A u \in healthy : \A x \in RandomNumbers :
                \/ GetNextEvent(u, Draw(u, x)) = Inf
                \/ /\ IsFinite(GetNextEvent(u, Draw(u, x)))
                   /\ GetNextEvent(u, Draw(u, x)) >= 0)
    /\ [][pc # "iter" => (IsFinite(t') /\ t' >= t)]_vars
    /\ [][\A c \in Components :
            (pc # "iter" /\ ttfs'[c] # ttfs[c]) =>
                \A d \in Components :
                    Len(ttfs[d]) > Len(ttfs_begin[d]) =>
                        ttfs[d][Len(ttfs[d])] <= ttfs'[c][Len(ttfs'[c])]]_vars

\* C25: the activity compute_reliability hands to a mechanism's
\* timeToFailure for a data point is between 0 and 1, whatever the class
\* of the unit and the values of the trace.
C25_DutyCycleClamped ==
    pc # "compute" =>
        \A u \in UnitSet : \A c \in DOMAIN duty_cycle[u] :
            \A m \in DOMAIN duty_cycle[u][c] :
                \A j \in DOMAIN duty_cycle[u][c][m] :
                    /\ duty_cycle[u][c][m][j] >= 0
                    /\ duty_cycle[u][c][m][j] <= ActivityUnit

\* C26: when the units are about to draw their next events, healthy is the
\* set of the units that are not failed; failure() is never called on a unit
\* that is failed; and a unit that is failed stays failed until the reset()
\* at the head of the next iteration.
C26_HealthyAreTheUnfailed ==
    /\ [](pc = "sample" => healthy = {u \in UnitSet : ~_failed[u]})
    /\ [](pc = "failure" => ~_failed[failed])
    /\ [][\A u \in UnitSet : _failed[u] /\ ~_failed'[u] => pc = "iter"]_vars

\* C27: parents_failed never erases a unit that is no longer in its list of
\* candidates, so that no call of it carries out erase(end()), also when a
\* unit is a child of two or more groups that are not failed.
C27_NoEraseOfAbsentUnit ==
    pc = "parents" => \A o \in ParentsFailed(_failed) : ~o.crashed

C29_AllUnitsFailedFailsRoot ==
    /\ []((UnitSet # {} /\ \A u \in UnitSet : _failed[u])
              => Failed(_failed, Root))
    /\ [][(/\ pc \in {"loop", "event"}
           /\ pc' = "iter"
           /\ \A u \in UnitSet : _failed[u])
              => Len(ttfs[Root]) = Len(ttfs_begin[Root]) + 1]_vars

\* C30: the walk appends to a component's ttfs the time t of the event that
\* has just happened, and only for a component that was not failed before
\* the failure() of this event: a group that parents_failed made failed is
\* not stamped with the time of a later event.
C30_TtfIsTimeOfFailure ==
    [][pc = "walk" =>
          \A c \in Components :
              ttfs'[c] # ttfs[c] =>
                  /\ ttfs'[c] = Append(ttfs[c], t)
                  /\ ~Failed([_failed EXCEPT ![failed] = FALSE], c)]_vars

====
